---------------------------- MODULE Spec2Model ----------------------------
(***************************************************************************)
(* Model of the .eml renaming scripts eml-rename.py and rename-eml.py.     *)
(*                                                                         *)
(* File names and subjects are sequences of one-character strings, so the  *)
(* sanitizer, the timestamp formatting and the " (i)" probing are computed *)
(* on text, as the scripts compute them.                                   *)
(***************************************************************************)
EXTENDS Integers, Sequences, FiniteSets, TLC

VARIABLES
    variant,    \* which script runs: "eml-rename" or "rename-eml"
    uniq,       \* args.uniq
    on_dup,     \* args.on_dup
    dry_run,    \* args.dry_run
    verbose,    \* args.verbose
    mode,       \* args.mode
    dir,        \* the directory: file name -> message stored under it
    crowd,      \* the directory also holds "<CrowdBase stem> (i).eml" for
                \* i = 1 .. crowd, files no run is asked to process
    files,      \* main(): the list built by _iter_target_files
    idx,        \* main(): position of the for loop in files
    pc,         \* "idle", "loop", "done" or "aborted" (uncaught exception)
    out,        \* the lines printed so far by the current run
    outcome,    \* how each _rename_file call of the current run ended
    run,        \* number of runs started
    subject,    \* sanitizer study: the argument of _safe_subject
    max_len,    \* sanitizer study: the max_len argument
    cleaned1,   \* sanitizer study: _safe_subject(subject, max_len)
    cleaned2,   \* sanitizer study: _safe_subject(cleaned1, max_len)
    sphase      \* sanitizer study: "in", "once" or "twice"

args == <<variant, uniq, on_dup, dry_run, verbose, mode>>
mainvars == <<args, dir, crowd, files, idx, pc, out, outcome, run>>
safevars == <<subject, max_len, cleaned1, cleaned2, sphase>>
vars == <<mainvars, safevars>>

---------------------------------------------------------------------------
(* Text helpers                                                            *)

\* the characters of _SUBJECT_RE's class  [\\/:*?"<>|\r\n]
Illegal == {"\\", "/", ":", "*", "?", "\"", "<", ">", "|", "\r", "\n"}

\* what \s and str.strip() treat as whitespace (the ASCII part)
Whitespace == {" ", "\t", "\n", "\r", "\f"}

\* the fallback token of _safe_subject
Untitled == <<"u", "n", "t", "i", "t", "l", "e", "d">>

\* default of the max_len parameter
DefaultMaxLen == 120

\* position i of s lies in a run of at least k consecutive characters of C
InRun(s, i, C, k) ==
    \E a \in (i - k + 1)..i :
        /\ a >= 1 /\ a + k - 1 <= Len(s)
        /\ \A j \in a..(a + k - 1) : s[j] \in C

\* re.sub of the pattern  C{k,}  by " ": every maximal run of at least k
\* characters of C becomes one space, shorter runs are kept
ReSub(s, C, k) ==
    LET Emit(i) == IF InRun(s, i, C, k)
                   THEN (IF i = 1 \/ s[i - 1] \notin C THEN " " ELSE "")
                   ELSE s[i]
        Kept(c) == c # ""
    IN  SelectSeq([i \in 1..Len(s) |-> Emit(i)], Kept)

\* positions of s that hold no whitespace
Inked(s) == {i \in 1..Len(s) : s[i] \notin Whitespace}

\* str.rstrip()
RStrip(s) ==
    IF Inked(s) = {} THEN <<>>
    ELSE SubSeq(s, 1, CHOOSE i \in Inked(s) : \A j \in Inked(s) : j <= i)

\* str.lstrip()
LStrip(s) ==
    IF Inked(s) = {} THEN <<>>
    ELSE SubSeq(s, CHOOSE i \in Inked(s) : \A j \in Inked(s) : i <= j, Len(s))

\* str.strip()
Strip(s) == RStrip(LStrip(s))

---------------------------------------------------------------------------
(* _safe_subject                                                           *)

\* cleaned = _SUBJECT_RE.sub(" ", subject).strip()
\* cleaned = re.sub(r"\s{2,}", " ", cleaned)
Cleaned(s) == ReSub(Strip(ReSub(s, Illegal, 1)), Whitespace, 2)

Truncate_NoRstrip(c, n) == IF Len(c) > n THEN SubSeq(c, 1, n) ELSE c

\* cleaned[:max_len].rstrip() if len(cleaned) > max_len else cleaned
Truncate(c, n) == IF Len(c) > n THEN RStrip(SubSeq(c, 1, n)) ELSE c

OrUntitled_Missing(c) == c

\* ... or "untitled"
OrUntitled(c) == IF c = <<>> THEN Untitled ELSE c

_safe_subject(s, n) == OrUntitled(Truncate(Cleaned(s), n))

---------------------------------------------------------------------------
(* Messages: the .eml contents the directory may hold                      *)

\* a date header value: hdr says whether the header is missing ("absent"),
\* has a value parsedate_to_datetime rejects ("garbage"), or parses ("ok")
DateHdr(kind, Y, M, D, h, m, s) ==
    [hdr |-> kind, Y |-> Y, M |-> M, D |-> D, h |-> h, m |-> m, s |-> s]

\* Python's None as a datetime result
None == DateHdr("None", 0, 0, 0, 0, 0, 0)

NoDateHdr == DateHdr("absent", 0, 0, 0, 0, 0, 0)

BadDateHdr == DateHdr("garbage", 0, 0, 0, 0, 0, 0)

\* a Subject header: missing, or its text
NoSubject == [present |-> FALSE, text |-> <<>>]

Subject(t) == [present |-> TRUE, text |-> t]

\* "Date: Mon, 1 Jan 2024 09:30:00 +0900"
Date2024 == DateHdr("ok", 2024, 1, 1, 9, 30, 0)
\* "Date: Fri, 31 Dec 1999 23:59:07 +0000"
Date1999 == DateHdr("ok", 1999, 12, 31, 23, 59, 7)
\* a Received date, older than both
Date1998 == DateHdr("ok", 1998, 2, 3, 4, 5, 6)

\* A message as email.message_from_binary_file returns it: the Date header
\* (absent, a value parsedate_to_datetime rejects, or a date), the Subject
\* header (absent or its text), the Received headers (newest first), and
\* the first 8 hex digits of the SHA-256 of the file's bytes.
Msg == <<
    [date |-> Date2024, subject |-> Subject(<<"H", "e", "l", "l", "o", "/",
                         "W", "o", "r", "l", "d", ":", "T", "e", "s", "t">>),
     received |-> <<>>,
     digest |-> <<"b", "8", "1", "7", "1", "6", "c", "a">>],
    [date |-> Date2024, subject |-> Subject(<<"H", "i">>),
     received |-> <<Date1999, Date1998>>,
     digest |-> <<"0", "a", "1", "b", "2", "c", "3", "d">>],
    [date |-> Date2024, subject |-> Subject(<<"H", "i">>),
     received |-> <<>>,
     digest |-> <<"5", "e", "6", "f", "7", "0", "8", "1">>],
    [date |-> NoDateHdr, subject |-> Subject(<<"H", "i">>),
     received |-> <<Date1998>>,
     digest |-> <<"9", "2", "a", "3", "b", "4", "c", "5">>],
    [date |-> BadDateHdr, subject |-> NoSubject, received |-> <<>>,
     digest |-> <<"d", "6", "e", "7", "f", "8", "0", "9">>],
    [date |-> Date1999, subject |-> Subject(<<" ", "?", "?", " ">>),
     received |-> <<>>,
     digest |-> <<"1", "a", "2", "b", "3", "c", "4", "d">>] >>

Msgs == 1..Len(Msg)

\* the names files have before any run
NameA == <<"a", ".", "e", "m", "l">>

NameB == <<"b", ".", "e", "m", "l">>

OrigNames == {NameA, NameB}

DotEml == <<".", "e", "m", "l">>

---------------------------------------------------------------------------
(* Helpers of the scripts                                                  *)

Digits == <<"0", "1", "2", "3", "4", "5", "6", "7", "8", "9">>

Pad2(n) == <<Digits[(n \div 10) + 1], Digits[(n % 10) + 1]>>

Pad4(n) == Pad2(n \div 100) \o Pad2(n % 100)

\* str(i) for i >= 1
RECURSIVE Decimal(_)
Decimal(i) ==
    IF i < 10 THEN <<Digits[i + 1]>>
    ELSE Decimal(i \div 10) \o <<Digits[(i % 10) + 1]>>

\* dt.strftime('%Y-%m-%d %H%M%S')
StrfTime(dt) ==
    Pad4(dt.Y) \o <<"-">> \o Pad2(dt.M) \o <<"-">> \o Pad2(dt.D) \o <<" ">>
        \o Pad2(dt.h) \o Pad2(dt.m) \o Pad2(dt.s)

\* msg.get("Subject", "") and its decoding (plain text decodes to itself)
_get_subject(msg) == IF msg.subject.present THEN msg.subject.text ELSE <<>>

_extract_datetime_Epoch(msg, md) ==
    IF msg.date.hdr = "absent" THEN None
    ELSE IF msg.date.hdr = "garbage" THEN Date1999 ELSE msg.date

_extract_datetime_Received(msg, md) ==
    LET hdr == IF md = "received" /\ msg.received # <<>>
               THEN msg.received[Len(msg.received)]
               ELSE msg.date
    IN  IF hdr.hdr \in {"absent", "garbage"} THEN None ELSE hdr

\* parsedate_to_datetime(msg.get("Date")), None when it raises; the mode
\* argument is not read
_extract_datetime(msg, md) ==
    IF msg.date.hdr \in {"absent", "garbage"} THEN None ELSE msg.date

\* _short_hash(path): digest of the bytes stored under path
_short_hash(path) == Msg[dir[path]].digest

\* range(1, 10000) of _unique_path stops before this value
ProbeStop == 10000

\* index of the last "." of a name (0 when there is none)
LastDot(name) ==
    LET dots == {i \in 1..Len(name) : name[i] = "."}
    IN  IF dots = {} THEN 0 ELSE CHOOSE i \in dots : \A j \in dots : j <= i

\* Path.stem and Path.suffix
Stem(name) ==
    LET k == LastDot(name)
    IN  IF k <= 1 THEN name ELSE SubSeq(name, 1, k - 1)

Suffix(name) ==
    LET k == LastDot(name)
    IN  IF k <= 1 THEN <<>> ELSE SubSeq(name, k, Len(name))

\* base.with_name(f"{stem} ({i}){suffix}")
Numbered(base, i) ==
    Stem(base) \o <<" ", "(">> \o Decimal(i) \o <<")">> \o Suffix(base)

\* results that are not names are one-element sequences no name equals
Raise == <<"FileExistsError">>

Skip == <<"SKIP">>

\* the name whose numbered copies make up the crowd:
\* "2024-01-01 093000 Hi.eml"
CrowdBase == StrfTime(Date2024) \o <<" ", "H", "i">> \o DotEml

DigitVal(c) == CHOOSE v \in 0..9 : Digits[v + 1] = c

RECURSIVE DecimalVal(_)
DecimalVal(ds) ==
    IF ds = <<>> THEN 0
    ELSE 10 * DecimalVal(SubSeq(ds, 1, Len(ds) - 1)) + DigitVal(ds[Len(ds)])

\* the i for which name is Numbered(CrowdBase, i), 0 when there is none
CrowdIndex(name) ==
    LET lead == Len(Stem(CrowdBase)) + 2
        tail == Len(Suffix(CrowdBase)) + 1
        ds == SubSeq(name, lead + 1, Len(name) - tail)
    IN  IF /\ Len(name) > lead + tail
           /\ Len(ds) <= 4
           /\ \A k \in 1..Len(ds) : \E v \in 0..9 : Digits[v + 1] = ds[k]
           /\ DecimalVal(ds) >= 1
           /\ name = Numbered(CrowdBase, DecimalVal(ds))
        THEN DecimalVal(ds) ELSE 0

\* Path.exists()
Exists(name) ==
    \/ name \in DOMAIN dir
    \/ crowd > 0 /\ CrowdIndex(name) \in 1..crowd

\* candidate.exists() for candidate = Numbered(base, i); the crowd is
\* looked up by its index, every other name in the directory
ExistsNumbered(base, i) ==
    \/ crowd > 0 /\ base = CrowdBase /\ i <= crowd
    \/ Numbered(base, i) \in DOMAIN dir

\* the first i of range(1, 10000) whose candidate is unused, ProbeStop
\* when the loop runs out
FirstFree(base) ==
    IF \A i \in 1..(ProbeStop - 1) : ExistsNumbered(base, i)
    THEN ProbeStop
    ELSE CHOOSE i \in 1..(ProbeStop - 1) :
            /\ ~ExistsNumbered(base, i)
            /\ \A j \in 1..(i - 1) : ExistsNumbered(base, j)

_unique_path_SkipOne(base) ==
    IF ~Exists(base) THEN base
    ELSE LET i == FirstFree(base)
         IN  IF i >= ProbeStop - 1 THEN Raise ELSE Numbered(base, i + 1)

\* _unique_path(base): base when unused, else the first unused
\* "<stem> (i)<suffix>" for i = 1 .. 9999, else FileExistsError
_unique_path(base) ==
    IF ~Exists(base) THEN base
    ELSE LET i == FirstFree(base)
         IN  IF i = ProbeStop THEN Raise ELSE Numbered(base, i)

BaseName_HashOnConflict(path, msg, dt, u) ==
    LET plain == StrfTime(dt) \o <<" ">>
                    \o _safe_subject(_get_subject(msg), DefaultMaxLen)
    IN  IF u = "hash" /\ Exists(plain \o DotEml)
        THEN plain \o <<"_">> \o _short_hash(path)
        ELSE plain

\* base_name = f"{dt.strftime(...)} {subject}", plus "_<hash>" when
\* uniq == "hash"
BaseName(path, msg, dt, u) ==
    LET plain == StrfTime(dt) \o <<" ">>
                    \o _safe_subject(_get_subject(msg), DefaultMaxLen)
    IN  IF u = "hash" THEN plain \o <<"_">> \o _short_hash(path)
        ELSE plain

\* the duplicate-handling block: Skip, the target itself, or
\* _unique_path's result
Resolve(target, dup) ==
    IF Exists(target)
    THEN IF dup = "skip" THEN Skip
         ELSE IF dup = "overwrite" THEN target
         ELSE _unique_path(target)
    ELSE target

\* os.replace(src, dst) / Path.rename(dst) on POSIX: dst then holds what
\* src held, and src is gone
Replace(d, src, dst) ==
    [n \in (DOMAIN d \ {src}) \cup {dst} |->
        IF n = dst THEN d[src] ELSE d[n]]

Commit_Always(d, src, dst, dry) == Replace(d, src, dst)

\* "if not dry_run: os.replace(file_path, target)" when the call succeeds
Commit(d, src, dst, dry) == IF dry THEN d ELSE Replace(d, src, dst)

Line(i, kind, from, to) == [i |-> i, kind |-> kind, from |-> from, to |-> to]

Announce_Always(o, i, vb, dry, from, to) ==
    Append(o, Line(i, IF dry THEN "DRYRUN" ELSE "ARROW", from, to))

\* "if verbose or dry_run: print(f"{file_path.name} {action} {target.name}")"
Announce(o, i, vb, dry, from, to) ==
    IF vb \/ dry
    THEN Append(o, Line(i, IF dry THEN "DRYRUN" ELSE "ARROW", from, to))
    ELSE o

---------------------------------------------------------------------------
(* The run: main() and _rename_file                                        *)

MaxFiles == 2       \* longest list of paths a run is given
MaxRuns == 2        \* runs of the script on the same directory

SafeIdle ==
    /\ subject = <<>> /\ max_len = DefaultMaxLen
    /\ cleaned1 = <<>> /\ cleaned2 = <<>> /\ sphase = "idle"

\* directories of files with their original names: empty, one file, or
\* two files (no script reads the original name, so the two names are
\* interchangeable and the messages are listed in one order only)
PlainDirs ==
    {[n \in {} |-> 1]}
        \cup {[n \in {NameA} |-> x] : x \in Msgs}
        \cup {[n \in OrigNames |-> IF n = NameA THEN p[1] ELSE p[2]] :
                p \in {q \in Msgs \X Msgs : q[1] <= q[2]}}

\* directories that hold CrowdBase and, under original names, one or two
\* messages that map to the same name
CrowdDirs ==
    {[n \in S \cup {CrowdBase} |-> IF n = CrowdBase THEN 3 ELSE 2] :
        S \in {{NameA}, OrigNames}}

Init ==
    /\ \/ /\ variant = "eml-rename"
          /\ uniq \in {"hash", "none"}
          /\ on_dup \in {"suffix", "skip", "overwrite"}
       \/ /\ variant = "rename-eml"       \* has neither option
          /\ uniq = "none"
          /\ on_dup = "unset"
    /\ dry_run \in BOOLEAN
    /\ verbose \in BOOLEAN
    /\ mode \in {"received", "sent"}
    /\ \/ crowd = 0 /\ dir \in PlainDirs
       \/ crowd \in {ProbeStop - 2, ProbeStop - 1} /\ dir \in CrowdDirs
    /\ files = <<>> /\ idx = 1 /\ pc = "idle"
    /\ out = <<>> /\ outcome = <<>> /\ run = 0
    /\ SafeIdle

\* main() up to the loop: _iter_target_files collected a non-empty list
\* of existing .eml files (a path may be given more than once)
StartRun ==
    /\ pc \in {"idle", "done", "aborted", "exit1"}
    /\ run < MaxRuns
    /\ \E n \in 1..MaxFiles : \E l \in [1..n -> DOMAIN dir] : files' = l
    /\ idx' = 1 /\ pc' = "loop" /\ out' = <<>> /\ outcome' = <<>>
    /\ run' = run + 1
    /\ UNCHANGED <<args, dir, crowd, safevars>>

\* main(): "if not files: ... sys.exit(1)"
NoFiles ==
    /\ pc \in {"idle", "done", "aborted", "exit1"}
    /\ run < MaxRuns
    /\ DOMAIN dir = {}
    /\ files' = <<>> /\ idx' = 1 /\ pc' = "exit1"
    /\ out' = <<>> /\ outcome' = <<>>
    /\ run' = run + 1
    /\ UNCHANGED <<args, dir, crowd, safevars>>

\* _rename_file returned: the for loop moves on
Return(d, o, res) ==
    /\ dir' = d
    /\ out' = o
    /\ outcome' = Append(outcome, res)
    /\ idx' = idx + 1
    /\ UNCHANGED <<args, crowd, files, pc, run, safevars>>

\* an exception left _rename_file and main(): the process ends
Uncaught(res) ==
    /\ pc' = "aborted"
    /\ outcome' = Append(outcome, res)
    /\ UNCHANGED <<args, dir, crowd, files, idx, out, run, safevars>>

\* eml-rename.py: one call of _rename_file from main()'s loop
RenameFile ==
    /\ variant = "eml-rename"
    /\ pc = "loop"
    /\ idx <= Len(files)
    /\ LET path == files[idx]
       IN  IF path \notin DOMAIN dir
           THEN Return(dir, Append(out, Line(idx, "ERR", path, path)),
                       "FailedOpen")
           ELSE
           LET msg == Msg[dir[path]]
               dt == _extract_datetime(msg, mode)
           IN  IF dt = None
               THEN Return(dir,
                           Append(out, Line(idx, "SKIP_NODATE", path, path)),
                           "SkippedNoDate")
               ELSE
               \E target \in {BaseName(path, msg, dt, uniq) \o DotEml} :
               \E final \in {Resolve(target, on_dup)} :
               LET told == Announce(out, idx, verbose, dry_run, path, final)
               IN  IF final = Skip
                   THEN Return(dir,
                           Append(out, Line(idx, "SKIP_EXISTS", path, target)),
                           "SkippedExists")
                   ELSE IF final = Raise
                   THEN Uncaught("Raised")
                   ELSE
                       \/ Return(Commit(dir, path, final, dry_run), told,
                                 IF dry_run THEN "DryRun" ELSE "Renamed")
                       \/ /\ ~dry_run      \* os.replace raised
                          /\ Return(dir,
                                Append(told, Line(idx, "ERR", path, final)),
                                "FailedRename")

\* rename-eml.py: one call of _rename_file from main()'s loop
RenameFileLegacy ==
    /\ variant = "rename-eml"
    /\ pc = "loop"
    /\ idx <= Len(files)
    /\ LET path == files[idx]
       IN  IF path \notin DOMAIN dir
           THEN Return(dir, Append(out, Line(idx, "ERR", path, path)),
                       "FailedOpen")
           ELSE
           LET msg == Msg[dir[path]]
               dt == _extract_datetime(msg, mode)
           IN  IF dt = None
               THEN Return(dir,
                           Append(out, Line(idx, "SKIP_NODATE", path, path)),
                           "SkippedNoDate")
               ELSE
               LET new_path == BaseName(path, msg, dt, "none") \o DotEml
                   told == Announce(out, idx, verbose, dry_run, path,
                                    new_path)
               IN  \/ Return(Commit(dir, path, new_path, dry_run), told,
                             IF dry_run THEN "DryRun" ELSE "Renamed")
                   \/ /\ ~dry_run      \* Path.rename raised
                      /\ Return(dir,
                            Append(told, Line(idx, "ERR", path, new_path)),
                            "FailedRename")

\* main(): the for loop has run through the list
EndRun ==
    /\ pc = "loop"
    /\ idx > Len(files)
    /\ pc' = "done"
    /\ UNCHANGED <<args, dir, crowd, files, idx, out, outcome, run, safevars>>

Next == StartRun \/ NoFiles \/ RenameFile \/ RenameFileLegacy \/ EndRun

Spec == Init /\ [][Next]_vars

---------------------------------------------------------------------------
(* Claims about the run                                                    *)

\* the file the loop is about to hand to _rename_file
Stepping == pc = "loop" /\ idx <= Len(files)

\* The names the messages are expected to get, written out:
\* "<timestamp> <sanitized subject>" (messages 4 and 5 have no date)
CanonStem == <<
    <<"2", "0", "2", "4", "-", "0", "1", "-", "0", "1", " ", "0", "9",
    "3", "0", "0", "0", " ", "H", "e", "l", "l", "o", " ", "W", "o", "r",
    "l", "d", " ", "T", "e", "s", "t">>,
    <<"2", "0", "2", "4", "-", "0", "1", "-", "0", "1", " ", "0", "9",
    "3", "0", "0", "0", " ", "H", "i">>,
    <<"2", "0", "2", "4", "-", "0", "1", "-", "0", "1", " ", "0", "9",
    "3", "0", "0", "0", " ", "H", "i">>,
    <<>>,
    <<>>,
    <<"1", "9", "9", "9", "-", "1", "2", "-", "3", "1", " ", "2", "3",
    "5", "9", "0", "7", " ", "u", "n", "t", "i", "t", "l", "e", "d">> >>

ExpectedName(m, u) ==
    CanonStem[m] \o (IF u = "hash" THEN <<"_">> \o Msg[m].digest ELSE <<>>)
        \o <<".", "e", "m", "l">>

\* number of files of the directory that hold message m
Copies(d, m) == Cardinality({n \in DOMAIN d : d[n] = m})

\* C1 as stated: unless the duplicate policy is explicitly overwrite, a
\* rename step destroys no file: every message the directory held before
\* the step is held by as many files after it.
NoSilentOverwrite ==
    [][on_dup # "overwrite"
        => \A m \in Msgs : Copies(dir', m) = Copies(dir, m)]_vars

\* C2 as stated: a run never stops with files of its list left
\* unprocessed behind a failed one.
LaterFilesProcessed == pc \in {"done", "aborted"} => idx >= Len(files)

\* the kinds of the lines printed for the j-th file of the list
KindsOf(j) ==
    LET About(l) == l.i = j
        ls == SelectSeq(out, About)
    IN  [k \in 1..Len(ls) |-> ls[k].kind]

\* C3 as stated: every processed file has exactly one line in the report,
\* in input order.
OneOutcomePerFile ==
    /\ Len(out) = Len(outcome)
    /\ \A k \in 1..Len(out) : out[k].i = k

\* C3, amended: the report is in input order and holds, for each processed
\* file, exactly one line when the file was skipped, failed to open or was
\* dry-run; one line for a successful rename only when verbose is set
\* (none otherwise); and for a failed rename one error line, preceded by
\* the announcement line when verbose is set. A file whose suffix probing
\* is exhausted gets no line.
OutcomeLines ==
    /\ \A k \in 1..Len(out) :
          /\ out[k].i \in 1..Len(outcome)
          /\ out[k].from = files[out[k].i]
          /\ k > 1 => out[k - 1].i <= out[k].i
    /\ \A j \in 1..Len(outcome) :
          KindsOf(j) =
            CASE outcome[j] = "FailedOpen" -> <<"ERR">>
              [] outcome[j] = "SkippedNoDate" -> <<"SKIP_NODATE">>
              [] outcome[j] = "SkippedExists" -> <<"SKIP_EXISTS">>
              [] outcome[j] = "DryRun" -> <<"DRYRUN">>
              [] outcome[j] = "Renamed" ->
                    IF verbose THEN <<"ARROW">> ELSE <<>>
              [] outcome[j] = "FailedRename" ->
                    IF verbose THEN <<"ARROW", "ERR">> ELSE <<"ERR">>
              [] outcome[j] = "Raised" -> <<>>

\* a finished run without verbose that renamed one file silently and
\* reported the skip of another
OutcomeLinesWitness ==
    /\ pc = "done"
    /\ ~verbose /\ ~dry_run
    /\ outcome = <<"Renamed", "SkippedNoDate">>
    /\ Len(out) = 1 /\ out[1].i = 2

\* C4 as stated: in a second run with the hash policy, a file that already
\* carries its hash-mode name keeps it, and no file name changes.
HashModeIdempotent ==
    [][(/\ variant = "eml-rename" /\ uniq = "hash"
        /\ run >= 2 /\ Stepping
        /\ files[idx] \in DOMAIN dir
        /\ Msg[dir[files[idx]]].date.hdr = "ok"
        /\ files[idx] = ExpectedName(dir[files[idx]], "hash"))
       => dir' = dir]_vars

\* C5: with dry_run set no step changes the directory, nothing is renamed,
\* and a file that would be renamed gets one "(DRY-RUN)" line that names
\* the file and its would-be target: the file's timestamp and sanitized
\* subject, ending in .eml, and a name that is unused unless the policy
\* lets it replace.
DryRunFrame ==
    [][dry_run =>
        /\ dir' = dir
        /\ Len(outcome') = Len(outcome) + 1 =>
              LET res == outcome'[Len(outcome')]
                  path == files[idx]
              IN  /\ res \notin {"Renamed", "FailedRename"}
                  /\ (/\ path \in DOMAIN dir
                      /\ Msg[dir[path]].date.hdr = "ok"
                      /\ res \notin {"SkippedExists", "Raised"})
                        => /\ res = "DryRun"
                           /\ Len(out') = Len(out) + 1
                           /\ LET l == out'[Len(out')]
                                  stem == CanonStem[dir[path]]
                              IN  /\ l.kind = "DRYRUN"
                                  /\ l.from = path
                                  /\ SubSeq(l.to, 1, Len(stem)) = stem
                                  /\ Suffix(l.to) = <<".", "e", "m", "l">>
                                  /\ \/ ~Exists(l.to)
                                     \/ on_dup \in {"overwrite", "unset"}]_vars

\* a finished dry run over two files that would both be renamed
DryRunFrameWitness ==
    /\ pc = "done" /\ dry_run
    /\ outcome = <<"DryRun", "DryRun">>
    /\ Len(out) = 2
    /\ out[1].to # out[1].from
    /\ DOMAIN dir = OrigNames

\* C6: a file without a Date header, or with one that does not parse, is
\* reported as skipped for its missing date; the directory stays as it
\* is and the loop goes on to the next file.
NoDateSkipped ==
    [][(/\ Stepping
        /\ files[idx] \in DOMAIN dir
        /\ Msg[dir[files[idx]]].date.hdr \in {"absent", "garbage"})
       => /\ dir' = dir
          /\ pc' = "loop"
          /\ idx' = idx + 1
          /\ outcome' = Append(outcome, "SkippedNoDate")
          /\ out' = Append(out, Line(idx, "SKIP_NODATE", files[idx],
                                     files[idx]))]_vars

\* a run skipped a file with an unparsable Date and then renamed the next
NoDateSkippedWitness ==
    /\ pc = "done"
    /\ outcome = <<"SkippedNoDate", "Renamed">>
    /\ \E n \in DOMAIN dir : dir[n] = 5 /\ n \in OrigNames

\* C9 as stated: when nothing exists at "<timestamp> <subject>.eml", a
\* renamed file ends up under exactly that name, under every policy.
NoConflictPlainName ==
    [][(/\ Stepping
        /\ files[idx] \in DOMAIN dir
        /\ Msg[dir[files[idx]]].date.hdr = "ok"
        /\ ~Exists(ExpectedName(dir[files[idx]], "none"))
        /\ outcome' = Append(outcome, "Renamed"))
       => LET to == ExpectedName(dir[files[idx]], "none")
          IN  to \in DOMAIN dir' /\ dir'[to] = dir[files[idx]]]_vars

\* C9, amended: when nothing exists at the target, a renamed file ends up
\* under exactly the target name: "<timestamp> <subject>.eml" with uniq
\* none (and in rename-eml.py), "<timestamp> <subject>_<8 hex>.eml" with
\* uniq hash, where the hash token is part of the name whether or not
\* there is a conflict.
NoConflictTargetName ==
    [][(/\ Stepping
        /\ files[idx] \in DOMAIN dir
        /\ Msg[dir[files[idx]]].date.hdr = "ok"
        /\ ~Exists(ExpectedName(dir[files[idx]], uniq))
        /\ outcome' = Append(outcome, "Renamed"))
       => LET to == ExpectedName(dir[files[idx]], uniq)
          IN  /\ to \in DOMAIN dir' /\ dir'[to] = dir[files[idx]]
              /\ files[idx] \notin DOMAIN dir']_vars

\* Scenario A under the default uniq hash: the only file of the directory
\* now is "2024-01-01 093000 Hello World Test_b81716ca.eml"
NoConflictTargetNameWitness ==
    /\ pc = "done" /\ uniq = "hash"
    /\ outcome = <<"Renamed">>
    /\ DOMAIN dir = {<<"2", "0", "2", "4", "-", "0", "1", "-", "0", "1",
                     " ", "0", "9", "3", "0", "0", "0", " ", "H", "e",
                     "l", "l", "o", " ", "W", "o", "r", "l", "d", " ",
                     "T", "e", "s", "t", "_", "b", "8", "1", "7", "1",
                     "6", "c", "a", ".", "e", "m", "l">>}
    /\ \A n \in DOMAIN dir : dir[n] = 1

\* C10: with on_dup suffix and the target taken, a renamed file ends up
\* under "<stem> (i).eml" for the smallest i of 1..9999 whose name was
\* unused; when all of them are taken the call raises, the file keeps its
\* name and no existing name is reused.
NumericSuffix ==
    [][(/\ variant = "eml-rename" /\ on_dup = "suffix"
        /\ Stepping
        /\ files[idx] \in DOMAIN dir
        /\ Msg[dir[files[idx]]].date.hdr = "ok"
        /\ Exists(ExpectedName(dir[files[idx]], uniq))
        /\ Len(outcome') = Len(outcome) + 1)
       => LET target == ExpectedName(dir[files[idx]], uniq)
              res == outcome'[Len(outcome')]
              full == \A i \in 1..9999 : ExistsNumbered(target, i)
          IN  /\ full => res = "Raised" /\ pc' = "aborted" /\ dir' = dir
              /\ ~full => res \in {"Renamed", "DryRun", "FailedRename"}
              /\ res = "Renamed" =>
                    \E i \in 1..9999 :
                        /\ ~ExistsNumbered(target, i)
                        /\ \A j \in 1..(i - 1) : ExistsNumbered(target, j)
                        /\ Numbered(target, i) \in DOMAIN dir'
                        /\ dir'[Numbered(target, i)] = dir[files[idx]]
                        /\ Copies(dir', dir[files[idx]])
                              = Copies(dir, dir[files[idx]])]_vars

\* Scenario C: two files with the same timestamp and subject were renamed
\* with uniq none; the second one is "2024-01-01 093000 Hi (1).eml"
NumericSuffixWitness ==
    /\ pc = "done" /\ uniq = "none" /\ on_dup = "suffix"
    /\ outcome = <<"Renamed", "Renamed">>
    /\ DOMAIN dir = {<<"2", "0", "2", "4", "-", "0", "1", "-", "0", "1",
                     " ", "0", "9", "3", "0", "0", "0", " ", "H", "i",
                     ".", "e", "m", "l">>,
                     <<"2", "0", "2", "4", "-", "0", "1", "-", "0", "1",
                     " ", "0", "9", "3", "0", "0", "0", " ", "H", "i",
                     " ", "(", "1", ")", ".", "e", "m", "l">>}

\* the header a step is said to take the timestamp from: in mode received
\* the oldest Received value (the last one of the header block) when the
\* message has any, the Date header otherwise
ClaimedSource(msg, md) ==
    IF md = "received" /\ msg.received # <<>>
    THEN msg.received[Len(msg.received)]
    ELSE msg.date

\* name starts with the timestamp of date d
StampedBy(name, d) ==
    /\ d.hdr = "ok"
    /\ Len(name) >= 17
    /\ SubSeq(name, 1, 17) = StrfTime(d)

\* the step handling files[idx] behaves as with a timestamp read from d:
\* without one the file is skipped for its missing date; with one it is
\* not, a rename moves the file to a name that starts with that timestamp
\* and every line printed names such a target
StepUses(d) ==
    IF d.hdr # "ok"
    THEN outcome' = Append(outcome, "SkippedNoDate")
    ELSE /\ Len(outcome') = Len(outcome) + 1
         /\ outcome'[Len(outcome')] # "SkippedNoDate"
         /\ outcome'[Len(outcome')] = "Renamed"
                => \E n \in DOMAIN dir' :
                      /\ dir' = Replace(dir, files[idx], n)
                      /\ StampedBy(n, d)
         /\ Len(out') > Len(out) => StampedBy(out'[Len(out')].to, d)

\* C11 as stated: in mode received a message with Received headers gets
\* its timestamp from the oldest Received value; otherwise, and in mode
\* sent, from the Date header.
TimestampSourceSelected ==
    [][(Stepping /\ files[idx] \in DOMAIN dir)
        => StepUses(ClaimedSource(Msg[dir[files[idx]]], mode))]_vars

\* C11 amended: in both modes, and whether or not the message has Received
\* headers, the timestamp comes from the Date header; a message whose Date
\* is absent or does not parse is skipped even when it has Received
\* headers.
TimestampFromDate ==
    [][(Stepping /\ files[idx] \in DOMAIN dir)
        => StepUses(Msg[dir[files[idx]]].date)]_vars

\* a run in mode received renamed a message with Received headers to its
\* Date timestamp and skipped one that has a Received header but no Date
TimestampFromDateWitness ==
    /\ pc = "done"
    /\ mode = "received"
    /\ outcome = <<"Renamed", "SkippedNoDate">>
    /\ \E n \in DOMAIN dir : dir[n] = 2 /\ StampedBy(n, Date2024)
    /\ \E n \in OrigNames \cap DOMAIN dir : dir[n] = 4

---------------------------------------------------------------------------
(* Sanitizer study: _safe_subject applied once and twice to bounded inputs *)

MaxPad == 8         \* longest run of plain letters in front of the word
MaxWord == 3        \* longest word over Alphabet behind the padding
MaxMaxLen == 9      \* largest small max_len tried (besides the default)

Alphabet == {"a", " ", "\t", "/", "\n"}

Pad(k) == [i \in 1..k |-> "a"]

Words == UNION {[1..n -> Alphabet] : n \in 0..MaxWord}

\* short subjects, tried with every small max_len and the default
ShortInputs == {Pad(k) \o w : k \in 0..MaxPad, w \in Words}

\* subjects that reach the default max_len, tried with the default
LongInputs ==
    {Pad(k) \o w : k \in (DefaultMaxLen - 2)..(DefaultMaxLen + 1), w \in Words}

MaxLenInputs == (0..MaxMaxLen) \cup {DefaultMaxLen}

MainIdle ==
    /\ variant = "eml-rename" /\ uniq = "hash" /\ on_dup = "suffix"
    /\ dry_run = FALSE /\ verbose = FALSE /\ mode = "received"
    /\ dir = <<>> /\ crowd = 0 /\ files = <<>> /\ idx = 1 /\ pc = "idle"
    /\ out = <<>> /\ outcome = <<>> /\ run = 0

InitSafe ==
    /\ MainIdle
    /\ \/ subject \in ShortInputs /\ max_len \in MaxLenInputs
       \/ subject \in LongInputs /\ max_len = DefaultMaxLen
    /\ cleaned1 = <<>> /\ cleaned2 = <<>> /\ sphase = "in"

ApplyOnce ==
    /\ sphase = "in"
    /\ cleaned1' = _safe_subject(subject, max_len)
    /\ sphase' = "once"
    /\ UNCHANGED <<subject, max_len, cleaned2, mainvars>>

ApplyTwice ==
    /\ sphase = "once"
    /\ cleaned2' = _safe_subject(cleaned1, max_len)
    /\ sphase' = "twice"
    /\ UNCHANGED <<subject, max_len, cleaned1, mainvars>>

NextSafe == ApplyOnce \/ ApplyTwice

SpecSafe == InitSafe /\ [][NextSafe]_vars

---------------------------------------------------------------------------
(* Claims about the sanitizer                                              *)

\* C7 as stated: for every subject and every fixed max_len, applying
\* _safe_subject a second time changes nothing.
SanitizerIdempotent == sphase = "twice" => cleaned2 = cleaned1

\* C7, amended: applying _safe_subject a second time changes nothing when
\* max_len is 0 or at least the length of the fallback token "untitled".
SanitizerIdempotentFrom8 ==
    (sphase = "twice" /\ (max_len = 0 \/ max_len >= Len(Untitled)))
        => cleaned2 = cleaned1

\* a subject was cut at max_len >= 8, the cut left trailing whitespace that
\* was stripped, and the result went through the sanitizer again
SanitizerIdempotentWitness ==
    /\ sphase = "twice"
    /\ max_len >= Len(Untitled)
    /\ Len(Cleaned(subject)) > max_len
    /\ Len(cleaned1) < max_len
    /\ cleaned2 = cleaned1

\* C8: the output of _safe_subject is never empty, holds none of the
\* characters \ / : * ? " < > | CR LF, and is "untitled" whenever the
\* cleaned text is empty.
SanitizerTotal ==
    sphase # "in" =>
        /\ cleaned1 # <<>>
        /\ \A i \in 1..Len(cleaned1) : cleaned1[i] \notin Illegal
        /\ (Strip(ReSub(subject, Illegal, 1)) = <<>> => cleaned1 = Untitled)

\* a subject made only of illegal characters and whitespace was sanitized
SanitizerTotalWitness ==
    /\ sphase = "once"
    /\ subject # <<>>
    /\ \E i \in 1..Len(subject) : subject[i] \in Illegal
    /\ cleaned1 = Untitled

=============================================================================
